---- MODULE Spec2Model ----
(***************************************************************************)
(* A model of scraper_root/scraper/blofinfutures.py: the BlofinFutures     *)
(* synchronizer.  The constructor validates the credentials with one       *)
(* balance fetch; start() launches one thread per sync loop.  Every loop   *)
(* is modelled step by step: the exchange call, the transform of the rows, *)
(* the repository call and the sleep.  Steps that touch only thread-local  *)
(* state are taken atomically; the steps of sync_positions that write      *)
(* self.activesymbols are separate actions, so that the tick threads can   *)
(* interleave with them.                                                   *)
(*                                                                         *)
(* Numbers that arrive from the exchange are strings (JSON fields); float  *)
(* is modelled by the table Numeral, and a string outside the table makes  *)
(* float() raise ValueError.  Symbols are sequences of characters.         *)
(***************************************************************************)
EXTENDS Integers, Sequences, FiniteSets, TLC

\* ------------------------------------------------------------------ bounds
\* Longest page (list under 'data') an exchange response carries.
MaxPage == 2
\* Largest orderId of an order-history row; 0 stands for a missing or empty id.
MaxOrderId == 2
\* Longest BASE of a symbol in the symbol-conversion specification.
MaxBase == 3

\* ------------------------------------------------------------- python bits
\* float(x) for the strings the model's exchange sends; float("x") raises.
Numeral == ("0" :> 0) @@ ("1" :> 1) @@ ("2" :> 2) @@ ("-1" :> -1) @@ ("-3" :> -3) @@ ("5" :> 5)

Parses(s) == s \in DOMAIN Numeral

float(s) == Numeral[s]

\* Mutant: the quantity is passed on with its sign.
abs_signed(n) == n

abs(n) == IF n < 0 THEN 0 - n ELSE n

\* All sequences over S of length 0..n.
SeqUpTo(S, n) == UNION {[1..k -> S] : k \in 0..n}

\* The elements of a sequence.
Range(s) == {s[i] : i \in DOMAIN s}

\* An exchange call raises, returns a falsy response, a response without
\* 'data', or a response whose 'data' is one of the given pages.
Responses(pages) ==
    {[kind |-> "raise"], [kind |-> "empty"], [kind |-> "nodata"]}
        \cup {[kind |-> "data", data |-> p] : p \in pages}

\* The same without the responses that carry no 'data'.
Few(pages) == {[kind |-> "raise"]} \cup {[kind |-> "data", data |-> p] : p \in pages}

\* `resp and 'data' in resp`
HasData(resp) == resp.kind = "data"

\* A repository call returns or raises.
RepoOutcomes == {"ok", "raise"}

\* ---------------------------------------------------------------- symbols
BTC_USDT == <<"B", "T", "C", "-", "U", "S", "D", "T">>
ETH_USDT == <<"E", "T", "H", "-", "U", "S", "D", "T">>
SOL_USDC == <<"S", "O", "L", "-", "U", "S", "D", "C">>
ETHUSDT == <<"E", "T", "H", "U", "S", "D", "T">>

USDT == <<"U", "S", "D", "T">>
USDC == <<"U", "S", "D", "C">>

\* str.endswith
endswith(s, suffix) ==
    /\ Len(s) >= Len(suffix)
    /\ SubSeq(s, Len(s) - Len(suffix) + 1, Len(s)) = suffix

\* s.replace('-', '')
RECURSIVE replace_hyphen(_)
replace_hyphen(s) ==
    IF s = <<>> THEN <<>>
    ELSE IF Head(s) = "-" THEN replace_hyphen(Tail(s))
    ELSE <<Head(s)>> \o replace_hyphen(Tail(s))

\* Mutant: the hyphen is inserted before the last three characters.
to_blofin_symbol_off_by_one(symbol) ==
    IF endswith(symbol, USDT) THEN SubSeq(symbol, 1, Len(symbol) - 3) \o <<"-">> \o SubSeq(symbol, Len(symbol) - 2, Len(symbol))
    ELSE IF endswith(symbol, USDC) THEN SubSeq(symbol, 1, Len(symbol) - 4) \o <<"-">> \o USDC
    ELSE symbol

\* BlofinFutures._to_blofin_symbol
to_blofin_symbol(symbol) ==
    IF endswith(symbol, USDT) THEN SubSeq(symbol, 1, Len(symbol) - 4) \o <<"-">> \o USDT
    ELSE IF endswith(symbol, USDC) THEN SubSeq(symbol, 1, Len(symbol) - 4) \o <<"-">> \o USDC
    ELSE symbol

\* ---------------------------------------------------------------- threads
\* self.symbols: the configured symbols, one tick thread each.
TickSymbol == [trade_thread_ETHUSDT |-> ETHUSDT]

TickThreads == DOMAIN TickSymbol

Threads == {"sync_account", "sync_positions", "sync_trades", "sync_open_orders"} \cup TickThreads

VARIABLES
    main,            \* the supervisor: "init", "constructed", "started", "exited"
    loginFetches,    \* number of balance fetches made by the constructor
    loginResponse,   \* the response of the constructor's balance fetch
    pc,              \* pc[t]: the position of thread t ("idle" before launch)
    outcome,         \* outcome[t]: "running", "ok" or "failed" for the current cycle
    slept,           \* slept[t]: seconds of the sleep thread t is in (0 outside)
    activesymbols,   \* self.activesymbols
    last_synced_id,  \* sync_trades: the pagination cursor (0 is None)
    exchange_orders, \* sync_trades: the page of the current cycle
    incomes,         \* sync_trades: the incomes built in the current cycle
    cursorAtStart,   \* sync_trades: last_synced_id when the current cycle began,
                     \* which is the 'after' parameter of the cycle's request
    incomeCalls,     \* the lists passed to process_incomes in the current cycle
    account,         \* sync_account: account['data'] of the current cycle
    total_balance,   \* sync_account: total_balance
    asset_balances,  \* sync_account: asset_balances
    total_upnl,      \* sync_account: total_upnl
    positions_resp,  \* sync_account: the kind of the positions response ("none" before)
    balanceCalls,    \* the process_balances calls of the current cycle and their results
    held,            \* the exchange: the instrument ids whose position size is not 0
    exchange_positions, \* sync_positions: exchange_positions['data'] of the current cycle
    row,             \* sync_positions: the number of rows of the page handled so far
    positions,       \* sync_positions: positions
    positionCalls,   \* the process_positions calls of the current cycle and their results
    rebuilt,         \* the sets self.activesymbols held when a cycle had handled all its rows
    steady,          \* the ids that a successful cycle saw with a size and that kept one since
    symbols_to_fetch, \* sync_current_price: symbols_to_fetch, per tick thread
    tickers,         \* sync_current_price: the ticker responses of the cycle so far
    tickCalls,       \* the process_tick calls of the current cycle and their results
    readSymbols,     \* the elements of self.activesymbols that the cycle's line 198 read
    steadyAtRead,    \* the value of steady when line 198 ran
    open_orders,     \* sync_open_orders: open_orders['data'] of the current cycle
    orders,          \* sync_open_orders: orders
    orderCalls,      \* the process_orders calls of the current cycle and their results
    conversion       \* a symbol under conversion: its input, and the two results once made

supervisorVars == <<main, loginFetches, loginResponse>>
threadVars == <<pc, outcome, slept>>
tradeVars == <<last_synced_id, exchange_orders, incomes, cursorAtStart, incomeCalls>>

accountVars == <<account, total_balance, asset_balances, total_upnl, positions_resp, balanceCalls>>

positionVars == <<held, exchange_positions, row, positions, positionCalls, rebuilt, steady>>
tickVars == <<symbols_to_fetch, tickers, tickCalls, readSymbols, steadyAtRead>>

orderVars == <<open_orders, orders, orderCalls>>

vars == <<conversion, supervisorVars, threadVars, activesymbols, tradeVars, accountVars, positionVars, tickVars, orderVars>>

\* The first step of every loop.
FirstPc == [t \in Threads |-> IF t \in TickThreads THEN "compute"
                              ELSE IF t = "sync_positions" THEN "reset"
                              ELSE "fetch"]

\* Mutant: the loop body has no try/except, an exception ends the thread.
SleepUncaught(t, o, d) ==
    /\ pc' = [pc EXCEPT ![t] = IF o = "failed" THEN "terminated" ELSE "sleep"]
    /\ outcome' = [outcome EXCEPT ![t] = o]
    /\ slept' = [slept EXCEPT ![t] = IF o = "failed" THEN 0 ELSE d]

\* Thread t goes to sleep for d seconds with the cycle's outcome o: the end
\* of the try block (ok), or the except block of the loop (failed).
Sleep(t, o, d) ==
    /\ pc' = [pc EXCEPT ![t] = "sleep"]
    /\ outcome' = [outcome EXCEPT ![t] = o]
    /\ slept' = [slept EXCEPT ![t] = d]

\* Thread t moves to step p of its cycle.
Goto(t, p) ==
    /\ pc' = [pc EXCEPT ![t] = p]
    /\ outcome' = [outcome EXCEPT ![t] = "running"]
    /\ UNCHANGED slept

\* time.sleep returns: the `while True` begins the next cycle.
Wake(t) ==
    /\ pc[t] = "sleep"
    /\ pc' = [pc EXCEPT ![t] = FirstPc[t]]
    /\ outcome' = [outcome EXCEPT ![t] = "running"]
    /\ slept' = [slept EXCEPT ![t] = 0]

\* ------------------------------------------------------------- supervisor
\* Balance rows of the startup check: only the presence of 'data' is read.
LoginPages == {<<>>, <<[currency |-> "USDT", balance |-> "5"]>>}

\* Mutant: a failed login is logged but construction goes on.
init_swallow(responses) ==
    /\ main = "init"
    /\ \E test \in responses :
        /\ loginFetches' = loginFetches + 1
        /\ loginResponse' = test
        /\ main' = "constructed"
    /\ activesymbols' = <<>>
    /\ UNCHANGED <<conversion, threadVars, tradeVars, accountVars, positionVars, tickVars, orderVars>>

\* BlofinFutures.__init__
init(responses) ==
    /\ main = "init"
    /\ \E test \in responses :
        /\ loginFetches' = loginFetches + 1
        /\ loginResponse' = test
        /\ IF test.kind # "raise" /\ test.kind # "empty" /\ HasData(test)
           THEN main' = "constructed"
           ELSE main' = "exited"  \* raise SystemExit()
    /\ activesymbols' = <<>>
    /\ UNCHANGED <<conversion, threadVars, tradeVars, accountVars, positionVars, tickVars, orderVars>>

\* BlofinFutures.start
start ==
    /\ main = "constructed"
    /\ main' = "started"
    /\ pc' = FirstPc
    /\ UNCHANGED <<conversion, loginFetches, loginResponse, outcome, slept, activesymbols, tradeVars, accountVars, positionVars, tickVars, orderVars>>

\* -------------------------------------------------------------- sync_trades
TradeRows ==
    [state : {"filled", "canceled"}, pnl : {"0", "2", "x"}, fee : {"0", "-1"},
     orderId : 0..MaxOrderId]

TradePages == SeqUpTo(TradeRows, MaxPage)

\* Mutant: the fee is left out of the income's amount.
RECURSIVE trade_rows_without_fee(_, _, _)
trade_rows_without_fee(page, i, acc) ==
    IF i > Len(page) THEN acc
    ELSE LET trade == page[i] IN
        IF trade.state # "filled" THEN trade_rows_without_fee(page, i + 1, acc)
        ELSE IF ~Parses(trade.pnl) \/ ~Parses(trade.fee) THEN [acc EXCEPT !.raised = TRUE]
        ELSE LET pnl == float(trade.pnl)
                 inc == IF pnl # 0
                        THEN Append(acc.incomes, [income |-> pnl, transaction_id |-> trade.orderId])
                        ELSE acc.incomes
                 last == IF trade.orderId # 0 THEN trade.orderId ELSE acc.last
             IN trade_rows_without_fee(page, i + 1, [incomes |-> inc, last |-> last, raised |-> FALSE])

\* The body of `for trade in exchange_orders['data']` from row i on:
\* acc is [incomes, last, raised].
RECURSIVE trade_rows(_, _, _)
trade_rows(page, i, acc) ==
    IF i > Len(page) THEN acc
    ELSE LET trade == page[i] IN
        IF trade.state # "filled" THEN trade_rows(page, i + 1, acc)
        ELSE IF ~Parses(trade.pnl) \/ ~Parses(trade.fee) THEN [acc EXCEPT !.raised = TRUE]
        ELSE LET pnl == float(trade.pnl)
                 fee == float(trade.fee)
                 inc == IF pnl # 0
                        THEN Append(acc.incomes, [income |-> pnl + fee, transaction_id |-> trade.orderId])
                        ELSE acc.incomes
                 last == IF trade.orderId # 0 THEN trade.orderId ELSE acc.last
             IN trade_rows(page, i + 1, [incomes |-> inc, last |-> last, raised |-> FALSE])

\* Mutant: process_incomes is called for every page, also without incomes.
sync_trades_cycle_unconditional(responses) ==
    /\ main = "started"
    /\ pc["sync_trades"] = "fetch"
    /\ \E resp \in responses, r \in RepoOutcomes :
        LET rows == trade_rows(IF HasData(resp) THEN resp.data ELSE <<>>, 1,
                        [incomes |-> <<>>, last |-> last_synced_id, raised |-> FALSE])
            called == HasData(resp) /\ ~rows.raised
        IN /\ ~called => r = "ok"
           /\ exchange_orders' = IF HasData(resp) THEN resp.data ELSE <<>>
           /\ incomes' = rows.incomes
           /\ last_synced_id' = rows.last
           /\ incomeCalls' = IF called THEN <<[incomes |-> rows.incomes, result |-> r]>> ELSE <<>>
           /\ IF resp.kind = "raise" \/ rows.raised \/ r = "raise"
              THEN Sleep("sync_trades", "failed", 120)
              ELSE Sleep("sync_trades", "ok", 120)
    /\ UNCHANGED <<conversion, supervisorVars, activesymbols, accountVars, positionVars, tickVars, orderVars, cursorAtStart>>

\* sync_trades: one pass of the `while True` body up to the sleep: the
\* order-history request, the loop over the rows and process_incomes
sync_trades_cycle(responses) ==
    /\ main = "started"
    /\ pc["sync_trades"] = "fetch"
    /\ \E resp \in responses, r \in RepoOutcomes :
        LET rows == trade_rows(IF HasData(resp) THEN resp.data ELSE <<>>, 1,
                        [incomes |-> <<>>, last |-> last_synced_id, raised |-> FALSE])
            called == ~rows.raised /\ rows.incomes # <<>>
        IN /\ ~called => r = "ok"
           /\ exchange_orders' = IF HasData(resp) THEN resp.data ELSE <<>>
           /\ incomes' = rows.incomes
           /\ last_synced_id' = rows.last
           /\ incomeCalls' = IF called THEN <<[incomes |-> rows.incomes, result |-> r]>> ELSE <<>>
           /\ IF resp.kind = "raise" \/ rows.raised \/ r = "raise"
              THEN Sleep("sync_trades", "failed", 120)
              ELSE Sleep("sync_trades", "ok", 120)
    /\ UNCHANGED <<conversion, supervisorVars, activesymbols, accountVars, positionVars, tickVars, orderVars, cursorAtStart>>

\* sync_trades: time.sleep(120) returns and the next cycle begins; the
\* locals of the finished cycle are dead.
sync_trades_sleep ==
    /\ Wake("sync_trades")
    /\ cursorAtStart' = last_synced_id
    /\ exchange_orders' = <<>>
    /\ incomes' = <<>>
    /\ incomeCalls' = <<>>
    /\ UNCHANGED <<conversion, supervisorVars, activesymbols, accountVars, positionVars, tickVars, orderVars, last_synced_id>>

\* ------------------------------------------------------------- sync_account
\* A field the row does not carry: dict.get returns its default.
Missing == "<missing>"

get(value, default) == IF value = Missing THEN default ELSE value

BalanceRows == [currency : {"USDT", "BTC", Missing}, balance : {"5", "2", "x"}]

BalancePages == SeqUpTo(BalanceRows, MaxPage)

\* Rows of the positions response as sync_account reads them.
UpnlRows == [unrealizedPnl : {"5", "-3", "x"}]

UpnlPages == SeqUpTo(UpnlRows, MaxPage)

\* The body of `for asset in assets_data` from row i on: acc is
\* [total_balance, asset_balances, raised].
RECURSIVE asset_rows(_, _, _)
asset_rows(page, i, acc) ==
    IF i > Len(page) THEN acc
    ELSE LET asset == page[i]
             currency == get(asset.currency, "USDT")
         IN IF ~Parses(asset.balance) THEN [acc EXCEPT !.raised = TRUE]
            ELSE IF currency = "USDT"
            THEN asset_rows(page, i + 1, [acc EXCEPT !.total_balance = float(asset.balance)])
            ELSE asset_rows(page, i + 1,
                    [acc EXCEPT !.asset_balances =
                        Append(@, [asset |-> currency, balance |-> float(asset.balance),
                                   unrealizedProfit |-> 0])])

\* The body of `for pos in positions_resp['data']` from row i on; a row that
\* does not parse raises, and the inner `except Exception: pass` keeps the
\* sum reached so far.
RECURSIVE upnl_rows(_, _, _)
upnl_rows(page, i, sum) ==
    IF i > Len(page) THEN sum
    ELSE IF ~Parses(page[i].unrealizedPnl) THEN sum
    ELSE upnl_rows(page, i + 1, sum + float(page[i].unrealizedPnl))

\* Mutant: the inner try/except is missing, a raising positions fetch escapes.
positions_upnl_unguarded(resp) ==
    [total_upnl |-> IF HasData(resp) THEN upnl_rows(resp.data, 1, 0) ELSE 0,
     escaped |-> resp.kind = "raise"]

\* sync_account: the positions request for the unrealized PnL in its own
\* try: nothing escapes it
positions_upnl(resp) ==
    [total_upnl |-> IF HasData(resp) THEN upnl_rows(resp.data, 1, 0) ELSE 0,
     escaped |-> FALSE]

\* sync_account: one pass of the `while True` body up to the sleep: the
\* balance request, the loop over its rows, the positions request and
\* process_balances
sync_account_cycle(responses, upnlResponses) ==
    /\ main = "started"
    /\ pc["sync_account"] = "fetch"
    /\ \E resp \in responses, presp \in upnlResponses \cup {[kind |-> "none"]}, r \in RepoOutcomes :
        LET rows == asset_rows(IF HasData(resp) THEN resp.data ELSE <<>>, 1,
                        [total_balance |-> 0, asset_balances |-> <<>>, raised |-> FALSE])
            fetched == HasData(resp) /\ ~rows.raised
            upnl == positions_upnl(presp)
            called == fetched /\ ~upnl.escaped
        IN /\ fetched <=> presp.kind # "none"
           /\ ~called => r = "ok"
           /\ account' = IF HasData(resp) THEN resp.data ELSE <<>>
           /\ total_balance' = rows.total_balance
           /\ asset_balances' = rows.asset_balances
           /\ positions_resp' = presp.kind
           /\ total_upnl' = IF fetched THEN upnl.total_upnl ELSE 0
           /\ balanceCalls' =
                IF called
                THEN <<[balance |-> [totalBalance |-> rows.total_balance,
                                     totalUnrealizedProfit |-> upnl.total_upnl,
                                     assets |-> rows.asset_balances],
                        result |-> r]>>
                ELSE <<>>
           /\ IF resp.kind = "raise" \/ rows.raised \/ (fetched /\ upnl.escaped) \/ r = "raise"
              THEN Sleep("sync_account", "failed", 360)
              ELSE Sleep("sync_account", "ok", 100)
    /\ UNCHANGED <<conversion, supervisorVars, activesymbols, tradeVars, positionVars, tickVars, orderVars>>

\* sync_account: time.sleep returns and the next cycle begins
sync_account_sleep ==
    /\ Wake("sync_account")
    /\ account' = <<>>
    /\ total_balance' = 0
    /\ asset_balances' = <<>>
    /\ total_upnl' = 0
    /\ positions_resp' = "none"
    /\ balanceCalls' = <<>>
    /\ UNCHANGED <<conversion, supervisorVars, activesymbols, tradeVars, positionVars, tickVars, orderVars>>

\* ----------------------------------------------------------- sync_positions
\* An instId that is not a string (a JSON array): list.append takes it,
\* str.replace and set() raise on it.
NotAString == <<"[]">>

\* The ids of the rows of a page that carry a size.
NonZeroIds(page) ==
    {page[i].instId : i \in {j \in DOMAIN page :
        Parses(page[j].positions) /\ float(page[j].positions) # 0}}

PositionRows(instIds, quantities, sides, prices) ==
    [instId : instIds, positions : quantities, positionSide : sides, averagePrice : prices]

\* The exchange opens or closes positions.
ExchangeChange(instIds) ==
    /\ main = "started"
    /\ \E h \in SUBSET instIds :
        /\ h # held
        /\ Cardinality(h) <= MaxPage
        /\ held' = h
        /\ steady' = steady \cap h
    /\ UNCHANGED <<conversion, supervisorVars, threadVars, activesymbols, tradeVars, accountVars, tickVars, orderVars,
                   exchange_positions, row, positions, positionCalls, rebuilt>>

\* sync_positions: lines 119-120
sync_positions_reset ==
    /\ main = "started"
    /\ pc["sync_positions"] = "reset"
    /\ activesymbols' = <<BTC_USDT>>
    /\ positions' = <<>>
    /\ Goto("sync_positions", "fetch")
    /\ UNCHANGED <<conversion, supervisorVars, tradeVars, accountVars, tickVars, orderVars,
                   held, exchange_positions, row, positionCalls, rebuilt, steady>>

\* sync_positions: the positions request; a page shows the sizes the exchange holds
sync_positions_fetch(responses) ==
    /\ pc["sync_positions"] = "fetch"
    /\ \E resp \in responses :
        /\ HasData(resp) => NonZeroIds(resp.data) = held
        /\ IF resp.kind = "raise"
           THEN /\ Sleep("sync_positions", "failed", 360)
                /\ UNCHANGED <<exchange_positions, rebuilt>>
           ELSE IF HasData(resp) /\ resp.data # <<>>
           THEN /\ Goto("sync_positions", "rows")
                /\ exchange_positions' = resp.data
                /\ UNCHANGED rebuilt
           ELSE /\ Goto("sync_positions", "emit")
                /\ rebuilt' = rebuilt \cup {Range(activesymbols)}
                /\ UNCHANGED exchange_positions
    /\ UNCHANGED <<conversion, supervisorVars, activesymbols, tradeVars, accountVars, tickVars, orderVars,
                   held, row, positions, positionCalls, steady>>

\* Mutant: the side always follows the sign of the quantity.
position_side_by_sign(pos, q) ==
    IF q > 0 THEN "LONG" ELSE "SHORT"

\* The side of a position row with quantity q.
position_side(pos, q) ==
    LET pos_side == get(pos.positionSide, "net") IN
    IF pos_side = "long" THEN "LONG"
    ELSE IF pos_side = "short" THEN "SHORT"
    ELSE IF q > 0 THEN "LONG" ELSE "SHORT"

\* sync_positions: one pass of `for pos in exchange_positions['data']`
sync_positions_row ==
    /\ pc["sync_positions"] = "rows"
    /\ LET pos == exchange_positions[row + 1]
           last == row + 1 = Len(exchange_positions)
           Done(symbols) ==
               IF last THEN /\ Goto("sync_positions", "emit")
                            /\ rebuilt' = rebuilt \cup {Range(symbols)}
               ELSE /\ UNCHANGED <<threadVars, rebuilt>>
       IN /\ row' = row + 1
          /\ IF ~Parses(pos.positions)
             THEN /\ Sleep("sync_positions", "failed", 360)
                  /\ UNCHANGED <<activesymbols, positions, rebuilt>>
             ELSE IF float(pos.positions) = 0
             THEN /\ Done(activesymbols)
                  /\ UNCHANGED <<activesymbols, positions>>
             ELSE /\ activesymbols' = Append(activesymbols, pos.instId)
                  /\ IF pos.instId = NotAString \/ ~Parses(pos.averagePrice)
                     THEN /\ Sleep("sync_positions", "failed", 360)
                          /\ UNCHANGED <<positions, rebuilt>>
                     ELSE /\ positions' = Append(positions,
                                [symbol |-> replace_hyphen(pos.instId),
                                 entry_price |-> float(pos.averagePrice),
                                 position_size |-> abs(float(pos.positions)),
                                 side |-> position_side(pos, float(pos.positions))])
                          /\ Done(activesymbols')
    /\ UNCHANGED <<conversion, supervisorVars, tradeVars, accountVars, tickVars, orderVars,
                   held, exchange_positions, positionCalls, steady>>

\* Mutant: the success sleep is as long as the failure sleep.
sync_positions_emit_backoff ==
    /\ pc["sync_positions"] = "emit"
    /\ \E r \in RepoOutcomes :
        /\ positionCalls' = Append(positionCalls, [positions |-> positions, result |-> r])
        /\ IF r = "raise"
           THEN /\ Sleep("sync_positions", "failed", 360)
                /\ UNCHANGED steady
           ELSE /\ Sleep("sync_positions", "ok", 360)
                /\ steady' = steady \cup (NonZeroIds(exchange_positions) \cap held)
    /\ UNCHANGED <<conversion, supervisorVars, activesymbols, tradeVars, accountVars, tickVars, orderVars,
                   held, exchange_positions, row, positions, rebuilt>>

\* sync_positions: repository.process_positions and the sleep that follows
sync_positions_emit ==
    /\ pc["sync_positions"] = "emit"
    /\ \E r \in RepoOutcomes :
        /\ positionCalls' = Append(positionCalls, [positions |-> positions, result |-> r])
        /\ IF r = "raise"
           THEN /\ Sleep("sync_positions", "failed", 360)
                /\ UNCHANGED steady
           ELSE /\ Sleep("sync_positions", "ok", 250)
                /\ steady' = steady \cup (NonZeroIds(exchange_positions) \cap held)
    /\ UNCHANGED <<conversion, supervisorVars, activesymbols, tradeVars, accountVars, tickVars, orderVars,
                   held, exchange_positions, row, positions, rebuilt>>

\* sync_positions: time.sleep returns and the next cycle begins
sync_positions_sleep ==
    /\ Wake("sync_positions")
    /\ exchange_positions' = <<>>
    /\ row' = 0
    /\ positions' = <<>>
    /\ positionCalls' = <<>>
    /\ UNCHANGED <<conversion, supervisorVars, activesymbols, tradeVars, accountVars, tickVars, orderVars,
                   held, rebuilt, steady>>

\* ------------------------------------------------------- sync_current_price
\* list(set(...)): the elements of S once each, in any order.
Orders(S) == {f \in [1..Cardinality(S) -> S] : \A i, j \in DOMAIN f : f[i] = f[j] => i = j}

TickerPages == {<<>>, <<[last |-> "5"]>>, <<[last |-> "x"]>>}

\* The response carries a ticker: `ticker and 'data' in ticker and len(ticker['data']) > 0`
HasTicker(resp) == HasData(resp) /\ Len(resp.data) > 0

\* Mutant: the tick thread stores its fetch set as the active symbols.
sync_current_price_compute_writeback(t) ==
    /\ main = "started"
    /\ pc[t] = "compute"
    /\ readSymbols' = [readSymbols EXCEPT ![t] = Range(activesymbols)]
    /\ steadyAtRead' = [steadyAtRead EXCEPT ![t] = steady]
    /\ IF NotAString \in Range(activesymbols)
       THEN /\ Sleep(t, "failed", 120)
            /\ UNCHANGED <<symbols_to_fetch, activesymbols>>
       ELSE /\ Goto(t, "symbols")
            /\ \E order \in Orders(Range(activesymbols \o <<to_blofin_symbol(TickSymbol[t])>>)) :
                    /\ symbols_to_fetch' = [symbols_to_fetch EXCEPT ![t] = order]
                    /\ activesymbols' = order
    /\ UNCHANGED <<conversion, supervisorVars, tradeVars, accountVars, positionVars, orderVars,
                   tickers, tickCalls>>

\* Mutant: the list is not passed through set(), duplicates stay.
sync_current_price_compute_list(t) ==
    /\ main = "started"
    /\ pc[t] = "compute"
    /\ readSymbols' = [readSymbols EXCEPT ![t] = Range(activesymbols)]
    /\ steadyAtRead' = [steadyAtRead EXCEPT ![t] = steady]
    /\ IF NotAString \in Range(activesymbols)
       THEN /\ Sleep(t, "failed", 120)
            /\ UNCHANGED symbols_to_fetch
       ELSE /\ Goto(t, "symbols")
            /\ symbols_to_fetch' = [symbols_to_fetch EXCEPT ![t] =
                    activesymbols \o <<to_blofin_symbol(TickSymbol[t])>>]
    /\ UNCHANGED <<conversion, supervisorVars, activesymbols, tradeVars, accountVars, positionVars, orderVars,
                   tickers, tickCalls>>

\* sync_current_price: line 198
sync_current_price_compute(t) ==
    /\ main = "started"
    /\ pc[t] = "compute"
    /\ readSymbols' = [readSymbols EXCEPT ![t] = Range(activesymbols)]
    /\ steadyAtRead' = [steadyAtRead EXCEPT ![t] = steady]
    /\ IF NotAString \in Range(activesymbols)
       THEN /\ Sleep(t, "failed", 120)
            /\ UNCHANGED symbols_to_fetch
       ELSE /\ Goto(t, "symbols")
            /\ \E order \in Orders(Range(activesymbols \o <<to_blofin_symbol(TickSymbol[t])>>)) :
                    symbols_to_fetch' = [symbols_to_fetch EXCEPT ![t] = order]
    /\ UNCHANGED <<conversion, supervisorVars, activesymbols, tradeVars, accountVars, positionVars, orderVars,
                   tickers, tickCalls>>

\* Mutant: the inner try/except is missing, a raising symbol ends the cycle.
sync_current_price_symbol_unguarded(t, responses) ==
    /\ pc[t] = "symbols"
    /\ LET sym == symbols_to_fetch[t][Len(tickers[t]) + 1]
           last == Len(tickers[t]) + 1 = Len(symbols_to_fetch[t])
       IN \E ticker \in responses, r \in RepoOutcomes :
            /\ tickers' = [tickers EXCEPT ![t] = Append(@, ticker)]
            /\ IF HasTicker(ticker) /\ Parses(ticker.data[1].last)
               THEN tickCalls' = [tickCalls EXCEPT ![t] = Append(@,
                        [sym |-> sym,
                         tick |-> [symbol |-> replace_hyphen(sym), price |-> float(ticker.data[1].last)],
                         result |-> r])]
               ELSE /\ r = "ok"
                    /\ UNCHANGED tickCalls
            /\ IF \/ ticker.kind = "raise"
                  \/ HasTicker(ticker) /\ (~Parses(ticker.data[1].last) \/ r = "raise")
               THEN Sleep(t, "failed", 120)
               ELSE IF last THEN Sleep(t, "ok", 60)
               ELSE UNCHANGED threadVars
    /\ UNCHANGED <<conversion, supervisorVars, activesymbols, tradeVars, accountVars, positionVars, orderVars,
                   symbols_to_fetch, readSymbols, steadyAtRead>>

\* sync_current_price: one pass of `for sym in symbols_to_fetch`, and the
\* sleep after the last one
sync_current_price_symbol(t, responses) ==
    /\ pc[t] = "symbols"
    /\ LET sym == symbols_to_fetch[t][Len(tickers[t]) + 1]
           last == Len(tickers[t]) + 1 = Len(symbols_to_fetch[t])
       IN \E ticker \in responses, r \in RepoOutcomes :
            /\ tickers' = [tickers EXCEPT ![t] = Append(@, ticker)]
            /\ IF HasTicker(ticker) /\ Parses(ticker.data[1].last)
               THEN tickCalls' = [tickCalls EXCEPT ![t] = Append(@,
                        [sym |-> sym,
                         tick |-> [symbol |-> replace_hyphen(sym), price |-> float(ticker.data[1].last)],
                         result |-> r])]
               ELSE /\ r = "ok"
                    /\ UNCHANGED tickCalls
            /\ IF last THEN Sleep(t, "ok", 60) ELSE UNCHANGED threadVars
    /\ UNCHANGED <<conversion, supervisorVars, activesymbols, tradeVars, accountVars, positionVars, orderVars,
                   symbols_to_fetch, readSymbols, steadyAtRead>>

\* sync_current_price: time.sleep returns and the next cycle begins
sync_current_price_sleep(t) ==
    /\ Wake(t)
    /\ symbols_to_fetch' = [symbols_to_fetch EXCEPT ![t] = <<>>]
    /\ tickers' = [tickers EXCEPT ![t] = <<>>]
    /\ tickCalls' = [tickCalls EXCEPT ![t] = <<>>]
    /\ readSymbols' = [readSymbols EXCEPT ![t] = {}]
    /\ steadyAtRead' = [steadyAtRead EXCEPT ![t] = {}]
    /\ UNCHANGED <<conversion, supervisorVars, activesymbols, tradeVars, accountVars, positionVars, orderVars>>

\* --------------------------------------------------------- sync_open_orders
\* str.upper on the side values the model's exchange sends.
upper == ("buy" :> "BUY") @@ ("sell" :> "SELL") @@ ("" :> "") @@ ("close" :> "CLOSE")

OrderRows(instIds, prices, sides, positionSides) ==
    [instId : instIds, price : prices, side : sides, positionSide : positionSides]

\* Mutant: a row that cannot be transformed is left out and the loop goes on.
RECURSIVE order_rows_skipping(_, _, _)
order_rows_skipping(page, i, acc) ==
    IF i > Len(page) THEN acc
    ELSE LET item == page[i] IN
        IF item.instId = NotAString \/ ~Parses(item.price) THEN order_rows_skipping(page, i + 1, acc)
        ELSE LET side == upper[get(item.side, "")]
                 pos_side == get(item.positionSide, "net")
                 order == [symbol |-> replace_hyphen(item.instId),
                           price |-> float(item.price),
                           side |-> IF side \in {"BUY", "SELL"} THEN side ELSE side,
                           position_side |-> IF pos_side = "long" THEN "LONG"
                                             ELSE IF pos_side = "short" THEN "SHORT"
                                             ELSE IF side = "BUY" THEN "LONG" ELSE "SHORT"]
             IN order_rows_skipping(page, i + 1, [acc EXCEPT !.orders = Append(@, order)])

\* The body of `for item in open_orders['data']` from row i on: acc is
\* [orders, raised].
RECURSIVE order_rows(_, _, _)
order_rows(page, i, acc) ==
    IF i > Len(page) THEN acc
    ELSE LET item == page[i] IN
        IF item.instId = NotAString \/ ~Parses(item.price) THEN [acc EXCEPT !.raised = TRUE]
        ELSE LET side == upper[get(item.side, "")]
                 pos_side == get(item.positionSide, "net")
                 order == [symbol |-> replace_hyphen(item.instId),
                           price |-> float(item.price),
                           side |-> IF side \in {"BUY", "SELL"} THEN side ELSE side,
                           position_side |-> IF pos_side = "long" THEN "LONG"
                                             ELSE IF pos_side = "short" THEN "SHORT"
                                             ELSE IF side = "BUY" THEN "LONG" ELSE "SHORT"]
             IN order_rows(page, i + 1, [acc EXCEPT !.orders = Append(@, order)])

\* sync_open_orders: one pass of the `while True` body up to the sleep: the
\* active-orders request, the loop over its rows and process_orders
sync_open_orders_cycle(responses) ==
    /\ main = "started"
    /\ pc["sync_open_orders"] = "fetch"
    /\ \E resp \in responses, r \in RepoOutcomes :
        LET rows == order_rows(IF HasData(resp) THEN resp.data ELSE <<>>, 1,
                        [orders |-> <<>>, raised |-> FALSE])
            called == resp.kind # "raise" /\ ~rows.raised
        IN /\ ~called => r = "ok"
           /\ open_orders' = IF HasData(resp) THEN resp.data ELSE <<>>
           /\ orders' = rows.orders
           /\ orderCalls' = IF called THEN <<[orders |-> rows.orders, result |-> r]>> ELSE <<>>
           /\ IF ~called \/ r = "raise"
              THEN Sleep("sync_open_orders", "failed", 120)
              ELSE Sleep("sync_open_orders", "ok", 120)
    /\ UNCHANGED <<conversion, supervisorVars, activesymbols, tradeVars, accountVars, positionVars, tickVars>>

\* sync_open_orders: time.sleep(120) returns and the next cycle begins
sync_open_orders_sleep ==
    /\ Wake("sync_open_orders")
    /\ open_orders' = <<>>
    /\ orders' = <<>>
    /\ orderCalls' = <<>>
    /\ UNCHANGED <<conversion, supervisorVars, activesymbols, tradeVars, accountVars, positionVars, tickVars>>

\* ------------------------------------------------------------------ specs
\* The locals of every thread are empty, nothing was fetched or stored.
Fresh ==
    /\ outcome = [t \in Threads |-> "running"]
    /\ slept = [t \in Threads |-> 0]
    /\ activesymbols = <<>>
    /\ last_synced_id = 0
    /\ exchange_orders = <<>>
    /\ incomes = <<>>
    /\ cursorAtStart = 0
    /\ incomeCalls = <<>>
    /\ account = <<>>
    /\ total_balance = 0
    /\ asset_balances = <<>>
    /\ total_upnl = 0
    /\ positions_resp = "none"
    /\ balanceCalls = <<>>
    /\ held = {}
    /\ exchange_positions = <<>>
    /\ row = 0
    /\ positions = <<>>
    /\ positionCalls = <<>>
    /\ rebuilt = {}
    /\ steady = {}
    /\ symbols_to_fetch = [t \in TickThreads |-> <<>>]
    /\ tickers = [t \in TickThreads |-> <<>>]
    /\ tickCalls = [t \in TickThreads |-> <<>>]
    /\ readSymbols = [t \in TickThreads |-> {}]
    /\ steadyAtRead = [t \in TickThreads |-> {}]
    /\ open_orders = <<>>
    /\ orders = <<>>
    /\ orderCalls = <<>>

Init ==
    /\ main = "init"
    /\ loginFetches = 0
    /\ loginResponse = [kind |-> "none"]
    /\ pc = [t \in Threads |-> "idle"]
    /\ conversion = [step |-> "none"]
    /\ Fresh

\* The state right after __init__ and start() have succeeded.
Started ==
    /\ main = "started"
    /\ loginFetches = 1
    /\ loginResponse = [kind |-> "data", data |-> <<>>]
    /\ pc = FirstPc
    /\ conversion = [step |-> "none"]
    /\ Fresh

\* ------------------------------------------------------- symbol conversion
\* The characters of a BASE: an asset code has letters only (here those of
\* the two quote assets and one more).
Alphabet == {"B", "U", "S", "D", "T", "C"}

Bases == SeqUpTo(Alphabet, MaxBase)

\* BASE-USDT and BASE-USDC
ExchangeSymbols == {b \o <<"-">> \o q : b \in Bases, q \in {USDT, USDC}}

\* BASEUSDT and BASEUSDC
InternalSymbols == {b \o q : b \in Bases, q \in {USDT, USDC}}

SymbolInit ==
    /\ main = "init"
    /\ loginFetches = 0
    /\ loginResponse = [kind |-> "none"]
    /\ pc = [t \in Threads |-> "idle"]
    /\ Fresh
    /\ conversion \in
            {[step |-> "input", form |-> "exchange", input |-> x, mid |-> <<>>, output |-> <<>>] : x \in ExchangeSymbols}
            \cup {[step |-> "input", form |-> "internal", input |-> y, mid |-> <<>>, output |-> <<>>] : y \in InternalSymbols}

\* An exchange symbol to the internal format (lines 142, 167, 205, 248) and back
to_internal_and_back ==
    /\ conversion.step = "input"
    /\ conversion.form = "exchange"
    /\ conversion' = [conversion EXCEPT !.step = "done",
                                        !.mid = replace_hyphen(conversion.input),
                                        !.output = to_blofin_symbol(replace_hyphen(conversion.input))]
    /\ UNCHANGED <<supervisorVars, threadVars, activesymbols, tradeVars, accountVars, positionVars, tickVars, orderVars>>

\* An internal symbol to the exchange format and back (lines 198 and 205)
to_exchange_and_back ==
    /\ conversion.step = "input"
    /\ conversion.form = "internal"
    /\ conversion' = [conversion EXCEPT !.step = "done",
                                        !.mid = to_blofin_symbol(conversion.input),
                                        !.output = replace_hyphen(to_blofin_symbol(conversion.input))]
    /\ UNCHANGED <<supervisorVars, threadVars, activesymbols, tradeVars, accountVars, positionVars, tickVars, orderVars>>

SymbolNext == to_internal_and_back \/ to_exchange_and_back

\* The two conversions on every symbol with a BASE of up to MaxBase letters.
SpecSymbol == SymbolInit /\ [][SymbolNext]_vars

TradesNext ==
    \/ sync_trades_cycle(Responses(TradePages))
    \/ sync_trades_sleep

\* The trade thread, scheduled alone, on every page up to MaxPage rows.
SpecTrades == Started /\ [][TradesNext]_vars

AccountNext ==
    \/ sync_account_cycle(Responses(BalancePages), Responses(UpnlPages))
    \/ sync_account_sleep

\* The balance thread, scheduled alone, on every page up to MaxPage rows.
SpecAccount == Started /\ [][AccountNext]_vars

\* Positions in SOL-USDC or none, sizes that parse.
TickInstIds == {SOL_USDC}

TickPositionPages == SeqUpTo(PositionRows(TickInstIds, {"0", "1"}, {"net"}, {"5"}), MaxPage)

TicksNext ==
    \/ ExchangeChange(TickInstIds)
    \/ sync_positions_reset
    \/ sync_positions_fetch(Responses(TickPositionPages))
    \/ sync_positions_row
    \/ sync_positions_emit
    \/ sync_positions_sleep
    \/ \E t \in TickThreads :
        \/ sync_current_price_compute(t)
        \/ sync_current_price_symbol(t, Few(TickerPages))
        \/ sync_current_price_sleep(t)

\* The position thread and the tick threads, under every interleaving.
SpecTicks == Started /\ [][TicksNext]_vars

\* Rows of SOL-USDC with every kind of size and position side.
SidedPositionPages ==
    SeqUpTo(PositionRows({SOL_USDC}, {"0", "1", "-1", "x"}, {"long", "short", "net", Missing}, {"5"}), MaxPage)

PositionsNext ==
    \/ ExchangeChange({SOL_USDC})
    \/ sync_positions_reset
    \/ sync_positions_fetch(Responses(SidedPositionPages))
    \/ sync_positions_row
    \/ sync_positions_emit
    \/ sync_positions_sleep

\* The position thread, scheduled alone, on every page up to MaxPage rows.
SpecPositions == Started /\ [][PositionsNext]_vars

\* Rows of BTC-USDT with every kind of side and position side.
SidedOrderPages ==
    SeqUpTo(OrderRows({BTC_USDT}, {"5"}, {"buy", "sell", "close", Missing},
                      {"long", "short", "net", Missing}), MaxPage)

OrdersNext ==
    \/ sync_open_orders_cycle(Responses(SidedOrderPages))
    \/ sync_open_orders_sleep

\* The order thread, scheduled alone, on every page up to MaxPage rows.
SpecOrders == Started /\ [][OrdersNext]_vars

\* Position rows whose size or price may not parse.
SnapshotPositionPages ==
    SeqUpTo(PositionRows({SOL_USDC}, {"0", "1", "x"}, {"net"}, {"5", "x"}), MaxPage)

\* Order rows whose price may not parse.
SnapshotOrderPages == SeqUpTo(OrderRows({BTC_USDT}, {"5", "x"}, {"buy"}, {"net"}), MaxPage)

SnapshotsNext ==
    \/ ExchangeChange({SOL_USDC})
    \/ sync_positions_reset
    \/ sync_positions_fetch(Responses(SnapshotPositionPages))
    \/ sync_positions_row
    \/ sync_positions_emit
    \/ sync_positions_sleep
    \/ sync_open_orders_cycle(Responses(SnapshotOrderPages))
    \/ sync_open_orders_sleep

\* The two threads that store snapshots, under every interleaving.
SpecSnapshots == Started /\ [][SnapshotsNext]_vars

\* Every thread, on two pages each: one that is transformed and one with a
\* field that is not (a position whose instId is not a string).
BasicBalancePages == {<<[currency |-> "USDT", balance |-> "5"]>>, <<[currency |-> "BTC", balance |-> "x"]>>}

BasicUpnlPages == {<<[unrealizedPnl |-> "5"]>>}

BasicTradePages ==
    {<<[state |-> "filled", pnl |-> "2", fee |-> "-1", orderId |-> 1]>>,
     <<[state |-> "filled", pnl |-> "x", fee |-> "0", orderId |-> 1]>>}

BasicOrderPages == SeqUpTo(OrderRows({BTC_USDT}, {"5", "x"}, {"buy"}, {"net"}), 1) \ {<<>>}

BasicInstIds == {NotAString}

BasicPositionPages == SeqUpTo(PositionRows(BasicInstIds, {"0", "1"}, {"net"}, {"5"}), 1) \ {<<>>}

BasicTickerPages == {<<[last |-> "5"]>>}

\* Ticker responses that carry a ticker; process_tick returns or raises on it.
BasicTickers == {[kind |-> "data", data |-> p] : p \in BasicTickerPages}

Next ==
    \/ init(Responses(LoginPages))
    \/ start
    \/ ExchangeChange(BasicInstIds)
    \/ sync_account_cycle(Few(BasicBalancePages), Few(BasicUpnlPages))
    \/ sync_account_sleep
    \/ sync_positions_reset
    \/ sync_positions_fetch(Few(BasicPositionPages))
    \/ sync_positions_row
    \/ sync_positions_emit
    \/ sync_positions_sleep
    \/ sync_open_orders_cycle(Few(BasicOrderPages))
    \/ sync_open_orders_sleep
    \/ sync_trades_cycle(Few(BasicTradePages))
    \/ sync_trades_sleep
    \/ \E t \in TickThreads :
        \/ sync_current_price_compute(t)
        \/ sync_current_price_symbol(t, BasicTickers)
        \/ sync_current_price_sleep(t)

\* The whole program: construction, start() and every thread.
Spec == Init /\ [][Next]_vars

\* ------------------------------------------------------------ sync_trades: claims
\* The rows of the current cycle's page have all been transformed.
TradePageProcessed ==
    /\ pc["sync_trades"] = "sleep"
    /\ exchange_orders # <<>>
    /\ outcome["sync_trades"] = "ok" \/ incomeCalls # <<>>

\* The largest of a non-empty set of numbers.
Max(S) == CHOOSE m \in S : \A n \in S : n <= m

\* C3 as claimed: after a failed Trade Sync cycle the cursor is the one the
\* cycle started with.
C3_CursorKeptOnFailure ==
    (pc["sync_trades"] = "sleep" /\ outcome["sync_trades"] = "failed")
        => last_synced_id = cursorAtStart

\* C4 as claimed: after a non-empty page was processed without exception the
\* cursor is the largest orderId of the page.
C4_CursorIsMaxOrderId ==
    (TradePageProcessed /\ outcome["sync_trades"] # "failed")
        => last_synced_id = Max({exchange_orders[i].orderId : i \in DOMAIN exchange_orders})

\* The rows of a page that yield an Income: filled, with non-zero pnl.
IncomeRows(page) == SelectSeq(page, LAMBDA r : r.state = "filled" /\ float(r.pnl) # 0)

\* C9: for every processed page the incomes are, in page order, one Income
\* of amount pnl + fee per filled row with non-zero pnl, and nothing else.
C9_IncomesOfPage ==
    TradePageProcessed =>
        LET rows == IncomeRows(exchange_orders) IN
        /\ Len(incomes) = Len(rows)
        /\ \A i \in DOMAIN rows :
            /\ incomes[i].income = float(rows[i].pnl) + float(rows[i].fee)
            /\ incomes[i].transaction_id = rows[i].orderId

\* A processed page with a row that is not filled and carries a pnl, and a
\* filled row with pnl 2 and fee -1: one Income of amount 1.
C9_Witness ==
    /\ TradePageProcessed
    /\ Len(exchange_orders) = 2
    /\ exchange_orders[1].state = "canceled" /\ exchange_orders[1].pnl = "2"
    /\ exchange_orders[2].state = "filled" /\ exchange_orders[2].pnl = "2"
    /\ exchange_orders[2].fee = "-1"
    /\ Len(incomes) = 1 /\ incomes[1].income = 1

\* ----------------------------------------------------------- sync_account: claims
\* The balance of the last row of the page that counts as the USDT row (0 when
\* there is none), and the other rows as assets.
UsdtRows(page) == {i \in DOMAIN page : page[i].currency \in {"USDT", Missing}}

PrimaryTotal(page) ==
    IF UsdtRows(page) = {} THEN 0 ELSE float(page[Max(UsdtRows(page))].balance)

PrimaryAssets(page) ==
    LET rows == SelectSeq(page, LAMBDA r : r.currency \notin {"USDT", Missing})
    IN [i \in DOMAIN rows |-> [asset |-> rows[i].currency, balance |-> float(rows[i].balance),
                                unrealizedProfit |-> 0]]

\* C8: when the balance rows were read and the positions fetch raised, the
\* cycle makes exactly one process_balances call, its Balance carries the
\* total and the assets of the balance response and an unrealized profit of
\* 0, and once that call returns the loop takes the success sleep of 100.
C8_BalanceDespiteFailedUpnlFetch ==
    (pc["sync_account"] = "sleep" /\ positions_resp = "raise") =>
        /\ Len(balanceCalls) = 1
        /\ balanceCalls[1].balance.totalBalance = PrimaryTotal(account)
        /\ balanceCalls[1].balance.assets = PrimaryAssets(account)
        /\ balanceCalls[1].balance.totalUnrealizedProfit = 0
        /\ balanceCalls[1].result = "ok" =>
                outcome["sync_account"] = "ok" /\ slept["sync_account"] = 100

\* A cycle with a USDT row and a BTC row whose positions fetch raised, asleep
\* for 100 seconds after its one process_balances call.
C8_Witness ==
    /\ pc["sync_account"] = "sleep"
    /\ positions_resp = "raise"
    /\ account = <<[currency |-> "USDT", balance |-> "5"], [currency |-> "BTC", balance |-> "2"]>>
    /\ Len(balanceCalls) = 1
    /\ balanceCalls[1].balance.totalBalance = 5
    /\ slept["sync_account"] = 100

\* ------------------------------------------------------------- claims: loops
\* The sleep action of thread t.
Resume(t) ==
    \/ t = "sync_account" /\ sync_account_sleep
    \/ t = "sync_positions" /\ sync_positions_sleep
    \/ t = "sync_open_orders" /\ sync_open_orders_sleep
    \/ t = "sync_trades" /\ sync_trades_sleep
    \/ t \in TickThreads /\ sync_current_price_sleep(t)

\* C1: once launched, no loop thread ever terminates; a cycle in which a step
\* raised has been abandoned for the sleep, and from every sleep the loop can
\* begin its next cycle.
C1_LoopsNeverTerminate ==
    main = "started" =>
        \A t \in Threads :
            /\ pc[t] \in {"fetch", "reset", "rows", "emit", "compute", "symbols", "sleep"}
            /\ outcome[t] = "failed" => pc[t] = "sleep" /\ slept[t] > 0
            /\ pc[t] = "sleep" => ENABLED Resume(t)

\* Every loop is asleep after a failed cycle, the trade loop after an earlier
\* successful one that moved its cursor.
C1_Witness ==
    /\ \A t \in Threads : pc[t] = "sleep" /\ outcome[t] = "failed"
    /\ cursorAtStart = 1

\* C2: when the startup balance fetch raised or brought no 'data', the
\* process has exited after that one fetch, no thread was launched and no
\* repository call was made.
C2_FailedLoginExits ==
    (loginFetches > 0 /\ ~HasData(loginResponse)) =>
        /\ main = "exited"
        /\ loginFetches = 1
        /\ \A t \in Threads : pc[t] = "idle"
        /\ balanceCalls = <<>> /\ positionCalls = <<>> /\ orderCalls = <<>> /\ incomeCalls = <<>>
        /\ \A t \in TickThreads : tickCalls[t] = <<>>
        /\ ~ENABLED Next

\* The process has exited on a response without 'data'.
C2_Witness == main = "exited" /\ loginResponse.kind = "nodata"

\* ------------------------------------------------------------- claims: ticks
\* C5 as claimed: the active symbols a tick cycle read are the complete
\* result of a position cycle that handled all its rows, or the initial
\* empty list.
C5_TickReadsCompleteSet ==
    \A t \in TickThreads :
        pc[t] = "symbols" => readSymbols[t] \in rebuilt \cup {{}}

\* C6 as claimed: a tick cycle's fetch set holds every symbol that a finished
\* position cycle saw with a size and that has kept a size on the exchange.
C6_TickIncludesSteady ==
    \A t \in TickThreads :
        pc[t] = "symbols" => steadyAtRead[t] \subseteq Range(symbols_to_fetch[t])

\* The process_tick calls of thread t's cycle for symbol sym.
TickCallsFor(t, sym) == {k \in DOMAIN tickCalls[t] : tickCalls[t][k].sym = sym}

\* C7: a tick cycle visits every symbol of its fetch set whatever happened
\* to the symbols before, and every symbol whose ticker response carried a
\* ticker that transforms got exactly one process_tick call: when the cycle
\* sleeps, all symbols were visited.
C7_TickFailureIsolated ==
    \A t \in TickThreads :
        /\ (pc[t] = "sleep" /\ symbols_to_fetch[t] # <<>>) =>
                Len(tickers[t]) = Len(symbols_to_fetch[t])
        /\ \A i \in DOMAIN tickers[t] :
                (HasTicker(tickers[t][i]) /\ Parses(tickers[t][i].data[1].last)) =>
                    Cardinality(TickCallsFor(t, symbols_to_fetch[t][i])) = 1

\* A finished cycle over three symbols: the fetch of the second raised, the
\* process_tick call of the first raised, the third got its call.
C7_Witness ==
    \E t \in TickThreads :
        /\ pc[t] = "sleep"
        /\ Len(symbols_to_fetch[t]) = 3
        /\ Len(tickers[t]) = 3
        /\ tickers[t][2].kind = "raise"
        /\ Len(tickCalls[t]) = 2
        /\ tickCalls[t][1].result = "raise"
        /\ tickCalls[t][2].sym = symbols_to_fetch[t][3]

\* ----------------------------------------------------------- claims: symbols
\* C10: an exchange symbol BASE-USDT or BASE-USDC converted to the internal
\* format and back, and an internal symbol BASEUSDT or BASEUSDC converted to
\* the exchange format and back, is the symbol it was.
C10_SymbolRoundTrip ==
    conversion.step = "done" => conversion.output = conversion.input

\* USD-USDT went to USDUSDT and came back.
C10_Witness ==
    /\ conversion.step = "done"
    /\ conversion.form = "exchange"
    /\ conversion.input = <<"U", "S", "D", "-", "U", "S", "D", "T">>
    /\ conversion.mid = <<"U", "S", "D", "U", "S", "D", "T">>
    /\ conversion.output = conversion.input

\* -------------------------------------------------------- claims: positions
\* self.symbols in the exchange format: the symbols the synchronizer was
\* configured with.
ConfiguredSymbols == {to_blofin_symbol(TickSymbol[t]) : t \in TickThreads}

\* C11 as claimed: after a position cycle that completed without exception
\* the active symbols are the configured symbols and the instrument ids of
\* the rows of the cycle's response that carry a size, and nothing else.
C11_ActiveSetIsConfiguredPlusSized ==
    (pc["sync_positions"] = "sleep" /\ outcome["sync_positions"] = "ok") =>
        Range(activesymbols) = ConfiguredSymbols \cup NonZeroIds(exchange_positions)

\* The rows of the response that the current cycle has handled so far.
HandledRows == SubSeq(exchange_positions, 1, row)

\* The rows of a page with a size that is not 0, in page order.
SizedRows(page) == SelectSeq(page, LAMBDA r : Parses(r.positions) /\ float(r.positions) # 0)

\* The position thread is inside a cycle in which nothing raised so far.
PositionCycleUnfailed ==
    /\ pc["sync_positions"] \in {"fetch", "rows", "emit", "sleep"}
    /\ outcome["sync_positions"] # "failed"

\* C13: the Position records of a cycle are, in page order, those of the
\* rows with a size other than 0: a row with quantity 0 yields no record and
\* no entry of the active symbols, and every record's position_size is the
\* magnitude of its row's quantity, never negative; process_positions gets
\* these records.
C13_ZeroRowsSkipped ==
    PositionCycleUnfailed =>
        LET sized == SizedRows(HandledRows) IN
        /\ Len(positions) = Len(sized)
        /\ Len(activesymbols) = 1 + Len(sized)
        /\ \A i \in DOMAIN sized :
            /\ activesymbols[i + 1] = sized[i].instId
            /\ positions[i].position_size >= 0
            /\ \/ positions[i].position_size = float(sized[i].positions)
               \/ positions[i].position_size = 0 - float(sized[i].positions)
        /\ \A k \in DOMAIN positionCalls : positionCalls[k].positions = positions

\* A page with a zero-size row and a row of quantity -1 went to
\* process_positions as one record of size 1.
C13_Witness ==
    /\ pc["sync_positions"] = "sleep"
    /\ Len(exchange_positions) = 2
    /\ exchange_positions[1].positions = "0"
    /\ exchange_positions[2].positions = "-1"
    /\ Len(positionCalls) = 1
    /\ Len(positionCalls[1].positions) = 1
    /\ positionCalls[1].positions[1].position_size = 1
    /\ activesymbols = <<BTC_USDT, SOL_USDC>>

\* C14: the side of every Position record is LONG for an explicit
\* positionSide "long" and SHORT for "short" whatever the sign of the
\* quantity; for any other or a missing positionSide it is LONG for a
\* positive and SHORT for a negative quantity.
C14_SideResolution ==
    PositionCycleUnfailed =>
        LET sized == SizedRows(HandledRows) IN
        \A i \in DOMAIN positions :
            positions[i].side =
                IF sized[i].positionSide = "long" THEN "LONG"
                ELSE IF sized[i].positionSide = "short" THEN "SHORT"
                ELSE IF float(sized[i].positions) > 0 THEN "LONG"
                ELSE "SHORT"

\* An explicit "long" with a negative quantity and an explicit "short" with a
\* positive one went to process_positions as LONG and SHORT.
C14_Witness ==
    /\ Len(positionCalls) = 1
    /\ Len(exchange_positions) = 2
    /\ exchange_positions[1].positionSide = "long" /\ exchange_positions[1].positions = "-1"
    /\ exchange_positions[2].positionSide = "short" /\ exchange_positions[2].positions = "1"
    /\ positionCalls[1].positions[1].side = "LONG"
    /\ positionCalls[1].positions[2].side = "SHORT"

\* ---------------------------------------------------------- claims: balance
\* The rows of a page whose currency field says USDT.
QuoteRows(page) == {i \in DOMAIN page : page[i].currency = "USDT"}

\* C12 as claimed: in every Balance passed to process_balances, totalBalance
\* is the balance of the USDT row of the response (0 without one), and every
\* other row, a row without a currency field included, is in assets once, in
\* page order, with its balance, an unrealizedProfit of 0 and, when it
\* carries one, its asset code.
C12_BalancePartition ==
    \A k \in DOMAIN balanceCalls :
        LET b == balanceCalls[k].balance
            others == SelectSeq(account, LAMBDA r : r.currency # "USDT")
        IN /\ IF QuoteRows(account) = {} THEN b.totalBalance = 0
              ELSE \E i \in QuoteRows(account) : b.totalBalance = float(account[i].balance)
           /\ Len(b.assets) = Len(others)
           /\ \A i \in DOMAIN others :
                /\ b.assets[i].balance = float(others[i].balance)
                /\ b.assets[i].unrealizedProfit = 0
                /\ others[i].currency # Missing => b.assets[i].asset = others[i].currency

\* ----------------------------------------------------------- claims: orders
\* C15 as claimed: every Order passed to process_orders has a side of BUY or
\* SELL and a position side of LONG or SHORT; the position side is the
\* explicit long or short of its row, and without one LONG for BUY and SHORT
\* for SELL.
C15_OrderSides ==
    \A k \in DOMAIN orderCalls :
        /\ Len(orderCalls[k].orders) = Len(open_orders)
        /\ \A i \in DOMAIN open_orders :
            LET order == orderCalls[k].orders[i]
                explicit == get(open_orders[i].positionSide, "net")
            IN /\ order.side \in {"BUY", "SELL"}
               /\ order.position_side \in {"LONG", "SHORT"}
               /\ explicit = "long" => order.position_side = "LONG"
               /\ explicit = "short" => order.position_side = "SHORT"
               /\ explicit \notin {"long", "short"} =>
                    order.position_side = (IF order.side = "BUY" THEN "LONG" ELSE "SHORT")

\* ----------------------------------------------------------- claims: trades
\* C16: a trade cycle makes at most one process_incomes call, never with an
\* empty list; the list of the call holds one Income for every filled row
\* with non-zero pnl of the page the cycle fetched, and a page without such
\* a row makes no call.
C16_IncomesInOneCall ==
    /\ Len(incomeCalls) <= 1
    /\ \A k \in DOMAIN incomeCalls :
        /\ incomeCalls[k].incomes # <<>>
        /\ Len(incomeCalls[k].incomes) = Len(IncomeRows(exchange_orders))
        /\ \A i \in DOMAIN incomeCalls[k].incomes :
            incomeCalls[k].incomes[i].transaction_id = IncomeRows(exchange_orders)[i].orderId
    /\ (pc["sync_trades"] = "sleep" /\ outcome["sync_trades"] = "ok"
            /\ IncomeRows(exchange_orders) # <<>>) => Len(incomeCalls) = 1

\* A page of two filled rows with a pnl went to process_incomes in one call
\* of two incomes.
C16_Witness ==
    /\ pc["sync_trades"] = "sleep"
    /\ Len(exchange_orders) = 2
    /\ Len(incomeCalls) = 1
    /\ Len(incomeCalls[1].incomes) = 2
    /\ incomeCalls[1].incomes[1].transaction_id = 1
    /\ incomeCalls[1].incomes[2].transaction_id = 2

\* ------------------------------------------------------- claims: fetch set
\* A tick cycle of thread t has computed its fetch set.
TickCycleComputed(t) == pc[t] = "symbols" \/ (pc[t] = "sleep" /\ symbols_to_fetch[t] # <<>>)

\* C19: the fetch set of a tick cycle is the active symbols read at the
\* start of the cycle together with the thread's own symbol in the exchange
\* format; no symbol is in it twice, each of its symbols gets at most one
\* ticker request in the cycle, and process_tick is called at most once per
\* symbol.
C19_FetchSetIsUnion ==
    \A t \in TickThreads :
        TickCycleComputed(t) =>
            /\ Range(symbols_to_fetch[t]) = readSymbols[t] \cup {to_blofin_symbol(TickSymbol[t])}
            /\ \A i, j \in DOMAIN symbols_to_fetch[t] :
                    symbols_to_fetch[t][i] = symbols_to_fetch[t][j] => i = j
            /\ Len(tickers[t]) <= Len(symbols_to_fetch[t])
            /\ \A sym \in Range(symbols_to_fetch[t]) : Cardinality(TickCallsFor(t, sym)) <= 1
            /\ \A k \in DOMAIN tickCalls[t] : tickCalls[t][k].sym \in Range(symbols_to_fetch[t])

\* The active symbols hold SOL-USDC twice (two rows of one instrument); a
\* tick cycle read them and made one process_tick call for each of BTC-USDT,
\* SOL-USDC and ETH-USDT.
C19_Witness ==
    \E t \in TickThreads :
        /\ activesymbols = <<BTC_USDT, SOL_USDC, SOL_USDC>>
        /\ pc["sync_positions"] = "sleep"
        /\ pc[t] = "sleep"
        /\ readSymbols[t] = {BTC_USDT, SOL_USDC}
        /\ Len(symbols_to_fetch[t]) = 3
        /\ Len(tickCalls[t]) = 3

\* -------------------------------------------------------- claims: snapshots
\* A row of a positions page that the row loop cannot transform.
BadPositionRow(r) ==
    \/ ~Parses(r.positions)
    \/ float(r.positions) # 0 /\ (r.instId = NotAString \/ ~Parses(r.averagePrice))

\* A row of an active-orders page that the row loop cannot transform.
BadOrderRow(r) == r.instId = NotAString \/ ~Parses(r.price)

\* The calls of the current cycles carry whole snapshots.
WholeSnapshots ==
    /\ Len(positionCalls) <= 1
    /\ Len(orderCalls) <= 1
    /\ \A k \in DOMAIN positionCalls :
        /\ row = Len(exchange_positions)
        /\ \A i \in DOMAIN exchange_positions : ~BadPositionRow(exchange_positions[i])
        /\ Len(positionCalls[k].positions) = Len(SizedRows(exchange_positions))
        /\ outcome["sync_positions"] = "failed" => positionCalls[k].result = "raise"
    /\ \A k \in DOMAIN orderCalls :
        /\ \A i \in DOMAIN open_orders : ~BadOrderRow(open_orders[i])
        /\ Len(orderCalls[k].orders) = Len(open_orders)
        /\ outcome["sync_open_orders"] = "failed" => orderCalls[k].result = "raise"
    /\ (\E i \in DOMAIN exchange_positions : BadPositionRow(exchange_positions[i]))
        => positionCalls = <<>>
    /\ (\E i \in DOMAIN open_orders : BadOrderRow(open_orders[i]))
        => orderCalls = <<>>

\* process_positions is called only by the step after the row loop, and a
\* step of the positions request or of the row loop that raises leaves the
\* cycle without a call.
CallsAfterRows ==
    /\ (positionCalls' # positionCalls /\ positionCalls' # <<>>) => pc["sync_positions"] = "emit"
    /\ (pc["sync_positions"] \in {"fetch", "rows"} /\ outcome'["sync_positions"] = "failed")
        => positionCalls' = <<>>

\* C20: a position cycle and an order cycle make at most one repository
\* call; the call comes after the last row of the cycle's response and
\* carries the records of all its rows; a cycle whose fetch raised or whose
\* response has a row that cannot be transformed makes no call, so the
\* stored snapshot stays: the only exception of a cycle with a call is the
\* call's own.
C20_NoPartialSnapshot == []WholeSnapshots /\ [][CallsAfterRows]_vars

\* Both loops are asleep after a page whose second row could not be
\* transformed: the first row's record was built and no call was made.
C20_Witness ==
    /\ pc["sync_positions"] = "sleep"
    /\ Len(exchange_positions) = 2
    /\ ~BadPositionRow(exchange_positions[1])
    /\ BadPositionRow(exchange_positions[2])
    /\ Len(positions) = 1
    /\ positionCalls = <<>>
    /\ pc["sync_open_orders"] = "sleep"
    /\ Len(open_orders) = 2
    /\ ~BadOrderRow(open_orders[1])
    /\ BadOrderRow(open_orders[2])
    /\ Len(orders) = 1
    /\ orderCalls = <<>>

\* ------------------------------------------------------------ claims: sleeps
\* The seconds loop t sleeps after a cycle with outcome o, as claimed.
SleepSeconds(t, o) ==
    IF t = "sync_account" THEN (IF o = "ok" THEN 100 ELSE 360)
    ELSE IF t = "sync_positions" THEN (IF o = "ok" THEN 250 ELSE 360)
    ELSE IF t \in TickThreads THEN (IF o = "ok" THEN 60 ELSE 120)
    ELSE 120

\* Every sleep has the length its loop takes for the cycle's outcome, and
\* the outcome is that of the cycle's steps: a repository call that raised
\* is a failed cycle, a returned call of the balance or the position loop a
\* successful one, and a tick cycle that reached its symbols is successful
\* whatever the tickers and process_tick calls of its symbols did.
SleepByOutcome ==
    \A t \in Threads :
        /\ pc[t] = "sleep" =>
            /\ outcome[t] \in {"ok", "failed"}
            /\ slept[t] = SleepSeconds(t, outcome[t])
        /\ pc[t] # "sleep" => slept[t] = 0 /\ outcome[t] = "running"
        /\ (pc[t] = "sleep" /\ t \in TickThreads) =>
            (outcome[t] = "ok" <=> symbols_to_fetch[t] # <<>>)
        /\ (pc[t] = "sleep" /\ t = "sync_account" /\ balanceCalls # <<>>) =>
            (outcome[t] = "ok" <=> balanceCalls[1].result = "ok")
        /\ (pc[t] = "sleep" /\ t = "sync_positions" /\ positionCalls # <<>>) =>
            (outcome[t] = "ok" <=> positionCalls[1].result = "ok")
        /\ (pc[t] = "sleep" /\ t = "sync_open_orders") =>
            (outcome[t] = "ok" <=> (orderCalls # <<>> /\ orderCalls[1].result = "ok"))
        /\ (pc[t] = "sleep" /\ t = "sync_trades" /\ incomeCalls # <<>>) =>
            (outcome[t] = "ok" <=> incomeCalls[1].result = "ok")

\* A cycle begins only when a sleep returns (or at the launch), a sleep is
\* followed by the first step of the next cycle, and a sleep is taken once:
\* its length does not change while it lasts.
OneSleepPerCycle ==
    main = "started" =>
        \A t \in Threads :
            /\ (pc'[t] = FirstPc[t] /\ pc[t] # FirstPc[t]) => pc[t] = "sleep"
            /\ (pc[t] = "sleep" /\ pc'[t] # "sleep") => pc'[t] = FirstPc[t]
            /\ (pc[t] = "sleep" /\ pc'[t] = "sleep") =>
                    slept'[t] = slept[t] /\ outcome'[t] = outcome[t]
            /\ (pc[t] # "sleep" /\ pc'[t] = "sleep") => slept'[t] > 0

\* C17: the balance loop sleeps 100 after a cycle without an escaped
\* exception and 360 after one with; the position loop 250 and 360; a tick
\* loop 60 and 120, and a failure of one symbol does not make the cycle a
\* failed one; the order loop and the trade loop sleep 120 after every
\* cycle. Every cycle ends in one sleep, and the next cycle starts when it
\* returns.
C17_SleepByOutcome == []SleepByOutcome /\ [][OneSleepPerCycle]_vars

\* All loops asleep: the balance loop 100 after its call returned, the
\* position loop 360 after a failure, the tick loop 60 after a cycle in which
\* a process_tick call raised, the order loop 120 after a failure, and the
\* trade loop 120 after a success.
C17_Witness ==
    /\ \A t \in Threads : pc[t] = "sleep"
    /\ slept["sync_account"] = 100 /\ balanceCalls # <<>>
    /\ slept["sync_positions"] = 360 /\ outcome["sync_positions"] = "failed"
    /\ \A t \in TickThreads :
        /\ slept[t] = 60
        /\ \E k \in DOMAIN tickCalls[t] : tickCalls[t][k].result = "raise"
    /\ slept["sync_open_orders"] = 120 /\ outcome["sync_open_orders"] = "failed"
    /\ slept["sync_trades"] = 120 /\ outcome["sync_trades"] = "ok"

\* ------------------------------------------------------------ claims: frames
\* The locals of thread t.
Locals(t) ==
    IF t = "sync_account" THEN <<accountVars>>
    ELSE IF t = "sync_positions" THEN <<exchange_positions, row, positions, positionCalls>>
    ELSE IF t = "sync_trades" THEN <<exchange_orders, incomes, incomeCalls>>
    ELSE IF t = "sync_open_orders" THEN <<orderVars>>
    ELSE <<symbols_to_fetch[t], tickers[t], tickCalls[t]>>

\* The step is one of thread t: its position or its locals change.
Moves(t) == pc'[t] # pc[t] \/ Locals(t)' # Locals(t)

\* A step that changes the active symbols is one of the position loop, a
\* step that changes the cursor is one of the trade loop, and no step
\* changes the position or the locals of two loops.
FrameOfStep ==
    main = "started" =>
        /\ activesymbols' # activesymbols =>
            /\ Moves("sync_positions")
            /\ pc["sync_positions"] \in {"reset", "rows"}
        /\ last_synced_id' # last_synced_id =>
            /\ Moves("sync_trades")
            /\ pc["sync_trades"] = "fetch"
        /\ Cardinality({t \in Threads : Moves(t)}) <= 1

\* C18: only the position loop writes the active symbols, only the trade
\* loop writes the pagination cursor, and a step of one loop changes nothing
\* of another loop.
C18_FrameEffects == [][FrameOfStep]_vars

\* The position loop has appended to the active symbols and the trade loop
\* has moved its cursor while every other loop has finished a cycle.
C18_Witness ==
    /\ Len(activesymbols) = 2
    /\ last_synced_id = 1
    /\ \A t \in Threads : pc[t] = "sleep"

====
